---- MODULE Spec2Model ----
(***************************************************************************)
(* A model of binconvert: the PNG <-> BIN converter of src/png_to_bin.py   *)
(* and the upload handlers of src/app.py.                                  *)
(*                                                                         *)
(* A file system maps paths to files.  A file is either a sequence of      *)
(* bytes the image codec does not recognise, or a PNG file, kept as the    *)
(* image the codec decodes from it.  convert_png_to_bin and                *)
(* read_bin_to_png are operators on the file system; the BIN container is  *)
(* modelled byte by byte.                                                  *)
(***************************************************************************)
EXTENDS Integers, Sequences, FiniteSets, TLC

VARIABLES fs, origin, last, reqs

vars == <<fs, origin, last, reqs>>

\* ------------------------------------------------------------------ bounds

\* Largest width and height of a source image, and of a header's fields.
MaxDim == 2

\* Number of concurrent web requests.
NumReqs == 2

\* ------------------------------------------------------- bytes and packing

Min(a, b) == IF a <= b THEN a ELSE b

RECURSIVE Flatten(_)
\* The concatenation of a sequence of sequences.
Flatten(ss) == IF ss = <<>> THEN <<>> ELSE Head(ss) \o Flatten(Tail(ss))

\* The magic with its third byte mistyped.
MagicTypo == <<80, 78, 73, 0>>

\* b'PNG\x00'
Magic == <<80, 78, 71, 0>>

\* The first bytes of a PNG file: its signature.
PngSignature == <<137, 80, 78, 71, 13, 10, 26, 10>>

\* struct.pack('<I', n) with the bytes in big-endian order: a byte-order slip.
PackU32BE(n) ==
    <<(n \div 16777216) % 256, (n \div 65536) % 256, (n \div 256) % 256, n % 256>>

\* struct.pack('<I', n): four bytes, least significant first.
PackU32LE(n) ==
    <<n % 256, (n \div 256) % 256, (n \div 65536) % 256, (n \div 16777216) % 256>>

\* struct.unpack('<I', b)[0]; b has exactly four bytes.
UnpackU32LE(b) == b[1] + 256 * b[2] + 65536 * b[3] + 16777216 * b[4]

\* f.read(n) at offset pos of a file holding bytes: at most n bytes, fewer at
\* the end of the file.
Read(bytes, pos, n) == SubSeq(bytes, pos + 1, Min(pos + n, Len(bytes)))

\* ------------------------------------------------------------------- paths

Stems == {"a", "b"}

Suffixes == {".png", ".PNG", ".bin"}

\* A path is a stem and a suffix (Path.suffix).
Paths == [stem : Stems, suffix : Suffixes]

\* bin_path=None, png_path=None
None == [stem |-> "", suffix |-> ""]

\* str.lower() of a suffix.
Lower(s) == IF s = ".PNG" THEN ".png" ELSE s

\* Path.with_suffix(s)
WithSuffix(p, s) == [p EXCEPT !.suffix = s]

\* ------------------------------------------------------------------ images

\* Bytes per pixel of an image mode.
ModeBytes(mode) == CASE mode = "RGBA" -> 4 [] mode = "RGB" -> 3 [] mode = "L" -> 1

Modes == {"RGBA", "RGB", "L"}

\* The file of a missing path.
NoFile == [kind |-> "none"]

\* A file the codec does not identify as an image.
BytesFile(data) == [kind |-> "bytes", data |-> data]

\* A PNG file that decodes to the image (mode, w, h, px); intact is FALSE when
\* its header is readable and its pixel data is cut short.
PngFile(mode, w, h, px, intact) ==
    [kind |-> "png", mode |-> mode, w |-> w, h |-> h, px |-> px, intact |-> intact]

\* What open(path, 'rb') reads from a file.  Of a PNG file only the signature
\* is modelled: the reader takes four bytes of it and stops.
FileBytes(file) == IF file.kind = "png" THEN PngSignature ELSE file.data

\* Path.exists()
Exists(f, p) == f[p].kind # "none"

RECURSIVE ConvertRGBA(_, _)
\* img.convert('RGBA') on the pixel buffer of an image of the given mode: RGB
\* gains an opaque alpha, L is spread over the three colour channels.
ConvertRGBA(mode, px) ==
    IF px = <<>> THEN <<>>
    ELSE CASE mode = "RGBA" -> px
           [] mode = "RGB" ->
                <<px[1], px[2], px[3], 255>> \o ConvertRGBA(mode, SubSeq(px, 4, Len(px)))
           [] mode = "L" ->
                <<px[1], px[1], px[1], 255>> \o ConvertRGBA(mode, Tail(px))

\* img.tobytes() of the image converted to RGBA: width * height * 4 bytes,
\* row-major.
ToBytes(img) == ConvertRGBA(img.mode, img.px)

\* ------------------------------------------------------- results of a call

\* return ok, msg: the call returns a pair and leaves the file system f.
Return(ok, msg, f) == [raised |-> FALSE, exc |-> "", ok |-> ok, msg |-> msg, fs |-> f]

\* An exception leaves the function body with the file system f.
Raise(exc, f) == [raised |-> TRUE, exc |-> exc, ok |-> FALSE, msg |-> <<>>, fs |-> f]

\* An except clause that catches OSError alone: struct.error, ValueError and
\* SystemError pass through it to the caller.
ExceptOSError(r, text) ==
    IF r.raised /\ r.exc = "OSError"
    THEN [r EXCEPT !.raised = FALSE, !.ok = FALSE, !.msg = <<text, r.exc>>]
    ELSE r

\* except Exception as e: return False, f"<text>: {str(e)}"
ExceptException(r, text) ==
    IF r.raised
    THEN [r EXCEPT !.raised = FALSE, !.ok = FALSE, !.msg = <<text, r.exc>>]
    ELSE r

\* ------------------------------------------------------ convert_png_to_bin

\* open(path, 'wb') and everything written before the file is closed.
WriteFile(f, path, data) == [f EXCEPT ![path] = BytesFile(data)]

\* The header with the height written before the width.
HeaderSwapped(width, height, n) ==
    Magic \o PackU32LE(height) \o PackU32LE(width) \o <<4>> \o PackU32LE(n)

\* [MAGIC:4][WIDTH:4][HEIGHT:4][MODE:1][DATA_SIZE:4]
Header(width, height, n) ==
    Magic \o PackU32LE(width) \o PackU32LE(height) \o <<4>> \o PackU32LE(n)

\* bin_path when the caller gives none: the PNG's name with .bin.
ConvertTarget(png_path, bin_path) ==
    IF bin_path = None THEN WithSuffix(png_path, ".bin") ELSE bin_path

\* The body with the destination opened for writing before the source is
\* decoded: a failed decode leaves an empty destination behind.
ConvertBodyOpenFirst(f, png_path, bin_path, include_metadata) ==
    IF ~Exists(f, png_path) THEN Return(FALSE, <<"PNG file not found", png_path>>, f)
    ELSE IF Lower(png_path.suffix) # ".png"
    THEN Return(FALSE, <<"File is not a PNG", png_path>>, f)
    ELSE LET out == ConvertTarget(png_path, bin_path)
             img == f[png_path]
             g == WriteFile(f, out, <<>>)
         IN  IF img.kind # "png" THEN Raise("OSError", g)
             ELSE IF ~img.intact THEN Raise("OSError", g)
             ELSE LET pixel_data == ToBytes(img)
                      data == IF include_metadata
                              THEN Header(img.w, img.h, Len(pixel_data)) \o pixel_data
                              ELSE pixel_data
                  IN  Return(TRUE, <<"Successfully converted", png_path, out>>,
                             WriteFile(f, out, data))

\* The body of convert_png_to_bin, inside its try.
ConvertBody(f, png_path, bin_path, include_metadata) ==
    IF ~Exists(f, png_path) THEN Return(FALSE, <<"PNG file not found", png_path>>, f)
    ELSE IF Lower(png_path.suffix) # ".png"
    THEN Return(FALSE, <<"File is not a PNG", png_path>>, f)
    \* Image.open: UnidentifiedImageError, an OSError
    ELSE IF f[png_path].kind # "png" THEN Raise("OSError", f)
    ELSE LET img == f[png_path]
             out == ConvertTarget(png_path, bin_path)
         IN  \* img.convert / img.tobytes load the pixel data
             IF ~img.intact THEN Raise("OSError", f)
             ELSE LET width == img.w
                      height == img.h
                      pixel_data == ToBytes(img)
                  IN  IF include_metadata
                      THEN Return(TRUE, <<"Successfully converted", png_path, out>>,
                                  WriteFile(f, out,
                                            Header(width, height, Len(pixel_data))
                                            \o pixel_data))
                      ELSE Return(TRUE, <<"Successfully converted", png_path, out>>,
                                  WriteFile(f, out, pixel_data))

convert_png_to_bin(f, png_path, bin_path, include_metadata) ==
    ExceptException(ConvertBody(f, png_path, bin_path, include_metadata),
                    "Error converting PNG")

\* --------------------------------------------------------- read_bin_to_png

\* png_path when the caller gives none: the BIN's name with .png.
ReadTarget(bin_path, png_path) ==
    IF png_path = None THEN WithSuffix(bin_path, ".png") ELSE png_path

\* What img.save leaves of a destination it opened and could not finish:
\* the file it created is removed, a file that was there is left cut short.
PartialPng == PngFile("RGBA", 0, 0, <<>>, FALSE)

\* n bytes are fewer than width * height * 4, for width, height >= 1 (the
\* product is not formed when one factor alone is too large).
NotEnough(width, height, n) == width > n \/ height > n \/ width * height * 4 > n

\* Image.frombytes('RGBA', (width, height), pixel_data) followed by
\* img.save(png_path, 'PNG').  The raw decoder fills the image row by row and
\* stops when it is full: fewer bytes than width * height * 4 raise ValueError
\* ("not enough image data"), bytes past that are not looked at.  An image
\* with no pixels is not decoded and cannot be saved (SystemError).
FromBytesAndSave(f, bin_path, out, width, height, pixel_data) ==
    IF width = 0 \/ height = 0
    THEN Raise("SystemError", IF Exists(f, out) THEN [f EXCEPT ![out] = PartialPng] ELSE f)
    ELSE IF NotEnough(width, height, Len(pixel_data)) THEN Raise("ValueError", f)
    ELSE Return(TRUE, <<"Successfully converted", bin_path, out>>,
                [f EXCEPT ![out] = PngFile("RGBA", width, height,
                                           SubSeq(pixel_data, 1, width * height * 4),
                                           TRUE)])

\* The header fields read in order, with a bytes-per-pixel field other than 4
\* rejected.
ReadHeaderStrict(f, bin_path, out, bytes) ==
    IF Len(Read(bytes, 4, 4)) # 4 THEN Raise("struct.error", f)
    ELSE IF Len(Read(bytes, 8, 4)) # 4 THEN Raise("struct.error", f)
    ELSE IF Len(Read(bytes, 12, 1)) # 1 THEN Raise("struct.error", f)
    ELSE IF Read(bytes, 12, 1)[1] # 4 THEN Raise("ValueError", f)
    ELSE IF Len(Read(bytes, 13, 4)) # 4 THEN Raise("struct.error", f)
    ELSE FromBytesAndSave(f, bin_path, out,
                          UnpackU32LE(Read(bytes, 4, 4)), UnpackU32LE(Read(bytes, 8, 4)),
                          Read(bytes, 17, UnpackU32LE(Read(bytes, 13, 4))))

\* The header fields, read in order; each read of too few bytes raises
\* struct.error in struct.unpack.
ReadHeader(f, bin_path, out, bytes) ==
    IF Len(Read(bytes, 4, 4)) # 4 THEN Raise("struct.error", f)
    ELSE IF Len(Read(bytes, 8, 4)) # 4 THEN Raise("struct.error", f)
    ELSE IF Len(Read(bytes, 12, 1)) # 1 THEN Raise("struct.error", f)
    ELSE IF Len(Read(bytes, 13, 4)) # 4 THEN Raise("struct.error", f)
    ELSE LET width == UnpackU32LE(Read(bytes, 4, 4))
             height == UnpackU32LE(Read(bytes, 8, 4))
             mode_bytes == Read(bytes, 12, 1)[1]
             data_size == UnpackU32LE(Read(bytes, 13, 4))
             pixel_data == Read(bytes, 17, data_size)
         IN  FromBytesAndSave(f, bin_path, out, width, height, pixel_data)

\* The body without the has_metadata test: every file is read as a container
\* with a header.
ReadBodyAnyFile(f, bin_path, png_path, has_metadata) ==
    IF ~Exists(f, bin_path) THEN Return(FALSE, <<"BIN file not found", bin_path>>, f)
    ELSE IF Read(FileBytes(f[bin_path]), 0, 4) # Magic
    THEN Return(FALSE, <<"Invalid BIN file format (missing PNG magic number)">>, f)
    ELSE ReadHeader(f, bin_path, ReadTarget(bin_path, png_path), FileBytes(f[bin_path]))

\* The body of read_bin_to_png, inside its try.
ReadBody(f, bin_path, png_path, has_metadata) ==
    IF ~Exists(f, bin_path) THEN Return(FALSE, <<"BIN file not found", bin_path>>, f)
    ELSE LET out == ReadTarget(bin_path, png_path)
             bytes == FileBytes(f[bin_path])
         IN  IF ~has_metadata
             THEN Return(FALSE,
                         <<"Cannot read raw BIN without metadata (width/height unknown)">>, f)
             ELSE IF Read(bytes, 0, 4) # Magic
             THEN Return(FALSE,
                         <<"Invalid BIN file format (missing PNG magic number)">>, f)
             ELSE ReadHeader(f, bin_path, out, bytes)

read_bin_to_png(f, bin_path, png_path, has_metadata) ==
    ExceptException(ReadBody(f, bin_path, png_path, has_metadata),
                    "Error converting BIN to PNG")

\* ------------------------------------------------------------------ inputs

\* The paths the converter is called on.
CorePaths == {p \in Paths : p.stem = "a"}

\* Two RGBA pixels: opaque red, and one with four different channels.
Palette == << <<255, 0, 0, 255>>, <<10, 20, 30, 40>> >>

\* n RGBA pixels: pixel i is the palette's entry start + i * stride, cyclically.
Pattern(n, start, stride) ==
    Flatten([i \in 1..n |-> Palette[((start + (i - 1) * stride) % Len(Palette)) + 1]])

RECURSIVE Project(_, _)
\* The pixel buffer of a PNG of the given mode whose colours are those of the
\* RGBA buffer: RGB has no alpha, L has the first channel alone.
Project(mode, rgba) ==
    IF rgba = <<>> THEN <<>>
    ELSE SubSeq(rgba, 1, ModeBytes(mode)) \o Project(mode, SubSeq(rgba, 5, Len(rgba)))

\* The intact PNG files: every size, in RGBA with two pixel patterns and in
\* the other modes with one.
SourcePngs ==
    {PngFile("RGBA", w, h, Pattern(w * h, s, 1), TRUE) :
        w \in 1..MaxDim, h \in 1..MaxDim, s \in 0..1}
    \cup {PngFile(m, w, h, Project(m, Pattern(w * h, 1, 1)), TRUE) :
            m \in Modes \ {"RGBA"}, w \in 1..MaxDim, h \in 1..MaxDim}

\* A PNG file whose pixel data is cut short.
TruncatedPng == PngFile("RGBA", 1, 1, <<>>, FALSE)

\* The four bytes of n, least significant first (the format's table).
LE4(n) == [i \in 1..4 |-> (n \div (256 ^ (i - 1))) % 256]

\* A container with the given magic, header fields and payload.
Container(magic, w, h, bpp, ds, payload) ==
    magic \o LE4(w) \o LE4(h) \o <<bpp>> \o LE4(ds) \o payload

\* Values of a header's dataSize field.
FieldSizes == {0, 4, 4 * MaxDim * MaxDim, 1024}

\* Values of a header's bytes-per-pixel field.
FieldModes == {0, 4, 255}

\* Lengths of the bytes that follow a header.
PayloadLens == {0, 3, 4, 4 * MaxDim * MaxDim}

\* n bytes of pixel data.
Payload(n) == SubSeq(Pattern((n + 3) \div 4, 0, 1), 1, n)

\* Width and height fields: every size of image, an empty image either way,
\* and a width that needs a second byte.
FieldDims ==
    ((1..MaxDim) \X (1..MaxDim)) \cup {<<0, 1>>, <<1, 0>>, <<256, 1>>}

\* Containers with the right magic and a complete header.
HeaderedContainers ==
    {Container(Magic, d[1], d[2], m, ds, Payload(n)) :
        d \in FieldDims, m \in FieldModes, ds \in FieldSizes, n \in PayloadLens}

\* A well-formed container of a 1x1 image.
GoodContainer == Container(Magic, 1, 1, 4, 4, Payload(4))

\* Four bytes that are not the magic.
BadMagics == {<<80, 78, 71, 1>>, <<80, 78, 73, 0>>, <<0, 71, 78, 80>>, <<137, 80, 78, 71>>}

\* Well-formed but for the magic, and files shorter than the magic.
BadMagicContainers ==
    {Container(m, 1, 1, 4, 4, Payload(4)) : m \in BadMagics}
    \cup {SubSeq(GoodContainer, 1, n) : n \in 0..3}

\* The right magic and a header cut short.
TruncatedHeaders == {SubSeq(GoodContainer, 1, n) : n \in 4..16}

APng == [stem |-> "a", suffix |-> ".png"]

ABin == [stem |-> "a", suffix |-> ".bin"]

\* The files the converter finds, each a set of <<path, file>>: a PNG as
\* a.png; a PNG under the other spelling of the suffix and under another
\* suffix; a container as a.bin; a file that is no image named a.png; and an
\* undecodable a.png beside an a.bin that is already there.
Inputs ==
    {{<<APng, c>>} : c \in SourcePngs \cup {TruncatedPng}}
    \cup {{<<[stem |-> "a", suffix |-> x],
              PngFile("RGBA", 1, MaxDim, Pattern(MaxDim, 0, 1), TRUE)>>} :
            x \in {".PNG", ".bin"}}
    \cup {{<<ABin, BytesFile(c)>>} :
            c \in HeaderedContainers \cup BadMagicContainers \cup TruncatedHeaders}
    \cup {{<<APng, BytesFile(GoodContainer)>>}}
    \cup {{<<APng, c>>, <<ABin, BytesFile(GoodContainer)>>} :
            c \in {TruncatedPng, BytesFile(GoodContainer)}}

\* ------------------------------------------------------------------- state

\* Where a file comes from: nothing known.
Unknown == [by |-> "none"]

\* Written by a successful convert_png_to_bin from the PNG file src.
Converted(src, include_metadata) ==
    [by |-> "convert", meta |-> include_metadata, src |-> src]

\* No call yet.
NoCall ==
    [op |-> "none", src |-> None, dst |-> None, flag |-> FALSE,
     before |-> [q \in Paths |-> NoFile], srcOrigin |-> Unknown,
     raised |-> FALSE, exc |-> "", ok |-> FALSE, msg |-> <<>>]

\* The record of a call: its arguments, the file system it found, where its
\* source came from, and its result r.
Call(op, src, dst, flag, r) ==
    [op |-> op, src |-> src, dst |-> dst, flag |-> flag,
     before |-> fs, srcOrigin |-> origin[src],
     raised |-> r.raised, exc |-> r.exc, ok |-> r.ok, msg |-> r.msg]

\* A web request that has not arrived.  An arrived request keeps its endpoint,
\* the paths it works on, the file it uploaded, the file its conversion wrote
\* and, once answered, its HTTP status.
Idle ==
    [pc |-> "idle", kind |-> "", inp |-> None, out |-> None,
     upload |-> NoFile, wrote |-> NoFile, status |-> 0]

CoreInit ==
    /\ \E i \in Inputs :
          fs = [q \in Paths |->
                  IF \E x \in i : x[1] = q THEN (CHOOSE x \in i : x[1] = q)[2] ELSE NoFile]
    /\ origin = [q \in Paths |-> Unknown]
    /\ last = NoCall
    /\ reqs = [r \in 1..NumReqs |-> Idle]

\* A call of convert_png_to_bin(png_path, bin_path, include_metadata).
Convert(png_path, bin_path, include_metadata) ==
    LET r == convert_png_to_bin(fs, png_path, bin_path, include_metadata)
        out == ConvertTarget(png_path, bin_path)
    IN  /\ fs' = r.fs
        /\ last' = Call("convert", png_path, out, include_metadata, r)
        /\ origin' = [q \in Paths |->
                        IF q = out /\ r.ok THEN Converted(fs[png_path], include_metadata)
                        ELSE IF r.fs[q] = fs[q] THEN origin[q]
                        ELSE Unknown]
        /\ UNCHANGED reqs

\* A call of read_bin_to_png(bin_path, png_path, has_metadata).
ReadBin(bin_path, png_path, has_metadata) ==
    LET r == read_bin_to_png(fs, bin_path, png_path, has_metadata)
        out == ReadTarget(bin_path, png_path)
    IN  /\ fs' = r.fs
        /\ last' = Call("read", bin_path, out, has_metadata, r)
        /\ origin' = [q \in Paths |->
                        IF q = out /\ r.ok THEN Unknown
                        ELSE IF r.fs[q] = fs[q] THEN origin[q]
                        ELSE Unknown]
        /\ UNCHANGED reqs

\* Destinations a caller names: a file of the other stem.
BinTargets == {None, [stem |-> "b", suffix |-> ".bin"]}

PngTargets == {None, [stem |-> "b", suffix |-> ".png"]}

\* The files read_bin_to_png is called on: a BIN of either stem, and a PNG.
BinSources == {[stem |-> "a", suffix |-> ".bin"], [stem |-> "b", suffix |-> ".bin"],
               [stem |-> "a", suffix |-> ".png"]}

CoreNext ==
    \/ \E p \in CorePaths, b \in BinTargets, m \in BOOLEAN : Convert(p, b, m)
    \/ \E b \in BinSources, p \in PngTargets, m \in BOOLEAN : ReadBin(b, p, m)

Spec == CoreInit /\ [][CoreNext]_vars

\* ------------------------------------------------------------- web layer

\* allowed_png(filename)
allowed_png(name) == Lower(name.suffix) = ".png"

\* allowed_bin(filename)
allowed_bin(name) == Lower(name.suffix) = ".bin"

\* The PNG files clients upload.
PngUploads == {PngFile("RGBA", 1, 1, Pattern(1, s, 1), TRUE) : s \in 0..1}

\* The BIN files clients upload: two containers of a 1x1 image and a file
\* with a wrong magic.
BinUploads ==
    {BytesFile(Container(Magic, 1, 1, 4, 4, Pattern(1, s, 1))) : s \in 0..1}
    \cup {BytesFile(Container(<<80, 78, 71, 1>>, 1, 1, 4, 4, Payload(4)))}

\* The request r answered with an HTTP status.
Answered(r, status) == [r EXCEPT !.pc = "done", !.status = status]

WebInit ==
    /\ fs = [q \in Paths |-> NoFile]
    /\ origin = [q \in Paths |-> Unknown]
    /\ last = NoCall
    /\ reqs = [r \in 1..NumReqs |-> Idle]

\* POST /api/png-to-bin, up to file.save: a file name that is not a PNG's is
\* answered 400, any other upload is saved under its name in the upload
\* folder, over whatever is there.
PngUpload(r, name, file) ==
    /\ reqs[r].pc = "idle"
    /\ LET req == [Idle EXCEPT !.kind = "png-to-bin", !.inp = name,
                               !.out = WithSuffix(name, ".bin"), !.upload = file]
       IN  IF ~allowed_png(name)
           THEN /\ reqs' = [reqs EXCEPT ![r] = Answered(req, 400)]
                /\ UNCHANGED fs
           ELSE /\ reqs' = [reqs EXCEPT ![r] = [req EXCEPT !.pc = "saved"]]
                /\ fs' = [fs EXCEPT ![name] = file]
    /\ UNCHANGED <<origin, last>>

\* POST /api/png-to-bin, the call of convert_png_to_bin(png_path, bin_path):
\* a failure is answered 400.
PngConvert(r) ==
    /\ reqs[r].pc = "saved" /\ reqs[r].kind = "png-to-bin"
    /\ LET res == convert_png_to_bin(fs, reqs[r].inp, reqs[r].out, TRUE)
       IN  /\ fs' = res.fs
           /\ reqs' = [reqs EXCEPT ![r] =
                         IF res.ok
                         THEN [@ EXCEPT !.pc = "converted", !.wrote = res.fs[reqs[r].out]]
                         ELSE Answered(@, 400)]
    /\ UNCHANGED <<origin, last>>

\* POST /api/bin-to-png, up to file.save.
BinUpload(r, name, file) ==
    /\ reqs[r].pc = "idle"
    /\ LET req == [Idle EXCEPT !.kind = "bin-to-png", !.inp = name,
                               !.out = WithSuffix(name, ".png"), !.upload = file]
       IN  IF ~allowed_bin(name)
           THEN /\ reqs' = [reqs EXCEPT ![r] = Answered(req, 400)]
                /\ UNCHANGED fs
           ELSE /\ reqs' = [reqs EXCEPT ![r] = [req EXCEPT !.pc = "saved"]]
                /\ fs' = [fs EXCEPT ![name] = file]
    /\ UNCHANGED <<origin, last>>

\* POST /api/bin-to-png, the call of read_bin_to_png(bin_path, png_path).
BinRead(r) ==
    /\ reqs[r].pc = "saved" /\ reqs[r].kind = "bin-to-png"
    /\ LET res == read_bin_to_png(fs, reqs[r].inp, reqs[r].out, TRUE)
       IN  /\ fs' = res.fs
           /\ reqs' = [reqs EXCEPT ![r] =
                         IF res.ok
                         THEN [@ EXCEPT !.pc = "converted", !.wrote = res.fs[reqs[r].out]]
                         ELSE Answered(@, 400)]
    /\ UNCHANGED <<origin, last>>

\* Either handler after a successful conversion: os.path.getsize of the
\* uploaded and of the converted file, then the 200 answer; getsize of a file
\* that is gone raises OSError, answered 500.
Sizes(r) ==
    /\ reqs[r].pc = "converted"
    /\ reqs' = [reqs EXCEPT ![r] =
                  IF Exists(fs, reqs[r].inp) /\ Exists(fs, reqs[r].out)
                  THEN Answered(@, 200)
                  ELSE Answered(@, 500)]
    /\ UNCHANGED <<fs, origin, last>>

\* POST /api/cleanup/<name>: the file of that name is removed if it is there.
Cleanup(r, name) ==
    /\ reqs[r].pc = "idle"
    /\ fs' = IF Exists(fs, name) THEN [fs EXCEPT ![name] = NoFile] ELSE fs
    /\ reqs' = [reqs EXCEPT ![r] =
                  Answered([Idle EXCEPT !.kind = "cleanup", !.inp = name], 200)]
    /\ UNCHANGED <<origin, last>>

WebNext ==
    \E r \in 1..NumReqs :
        \/ \E name \in Paths, file \in PngUploads : PngUpload(r, name, file)
        \/ PngConvert(r)
        \/ \E name \in Paths, file \in BinUploads : BinUpload(r, name, file)
        \/ BinRead(r)
        \/ Sizes(r)
        \/ \E name \in Paths : Cleanup(r, name)

\* The upload handlers, their requests interleaved between the steps above.
SpecWeb == WebInit /\ [][WebNext]_vars

\* ------------------------------------------------------------- properties

\* The file the last call was made on, as the call found it.
LastSource == last.before[last.src]

\* The bytes begin with 50 4E 47 00.
HasMagic(b) == Len(b) >= 4 /\ b[1] = 80 /\ b[2] = 78 /\ b[3] = 71 /\ b[4] = 0

\* The unsigned little-endian value of the four bytes at offset off.
FieldAt(b, off) ==
    b[off + 1] + 256 * b[off + 2] + 65536 * b[off + 3] + 16777216 * b[off + 4]

\* data is the row-major RGBA buffer of the image: four bytes a pixel, the
\* image's own for RGBA, colour plus opaque alpha for RGB, grey three times
\* plus opaque alpha for L.
IsRGBAOf(img, data) ==
    /\ Len(data) = img.w * img.h * 4
    /\ \A i \in 0..(img.w * img.h - 1) :
          CASE img.mode = "RGBA" -> \A c \in 1..4 : data[4 * i + c] = img.px[4 * i + c]
            [] img.mode = "RGB" ->
                 /\ \A c \in 1..3 : data[4 * i + c] = img.px[3 * i + c]
                 /\ data[4 * i + 4] = 255
            [] img.mode = "L" ->
                 /\ \A c \in 1..3 : data[4 * i + c] = img.px[i + 1]
                 /\ data[4 * i + 4] = 255

\* The last call was read_bin_to_png with has_metadata=True on an existing
\* file of bytes with the right magic and a complete 17-byte header.
ReadOfHeadered ==
    /\ last.op = "read" /\ last.flag
    /\ LastSource.kind = "bytes"
    /\ HasMagic(LastSource.data) /\ Len(LastSource.data) >= 17

\* The pixel bytes that call read: dataSize of them, or what the file had left.
PixelBytesRead == Min(FieldAt(LastSource.data, 13), Len(LastSource.data) - 17)

\* C1: round trip.  convert_png_to_bin with include_metadata=True succeeds on
\* every decodable PNG named .png, and read_bin_to_png with has_metadata=True
\* on the container it wrote succeeds and writes an image of the source's
\* width and height whose pixel buffer is the source's RGBA buffer (the
\* source's own buffer when the source is RGBA).
C1_RoundTrip ==
    /\ (last.op = "convert" /\ last.flag /\ last.src.suffix \in {".png", ".PNG"}
          /\ LastSource.kind = "png" /\ LastSource.intact)
       => last.ok /\ origin[last.dst] = Converted(LastSource, TRUE)
    /\ (last.op = "read" /\ last.flag /\ last.srcOrigin.by = "convert"
          /\ last.srcOrigin.meta)
       => LET img == last.srcOrigin.src
              res == fs[last.dst]
          IN  /\ last.ok /\ ~last.raised
              /\ img.w >= 1 /\ img.h >= 1
              /\ res.kind = "png" /\ res.intact /\ res.mode = "RGBA"
              /\ res.w = img.w /\ res.h = img.h
              /\ IsRGBAOf(img, res.px)
              /\ img.mode = "RGBA" => res.px = img.px

\* A round trip of an RGBA image that is not square has been made.
C1_Witness ==
    /\ last.op = "read" /\ last.flag /\ last.ok
    /\ last.srcOrigin.by = "convert" /\ last.srcOrigin.meta
    /\ last.srcOrigin.src.mode = "RGBA"
    /\ last.srcOrigin.src.w # last.srcOrigin.src.h
    /\ fs[last.dst].px = last.srcOrigin.src.px

\* C2: container layout.  A successful convert_png_to_bin of an image of width
\* w and height h with include_metadata=True writes 50 4E 47 00, w and h as
\* four little-endian bytes each, the byte 04, w*h*4 as four little-endian
\* bytes and the row-major RGBA bytes: 17 + w*h*4 bytes, the dataSize field
\* equal to w*h*4 and to the number of bytes after it.  With
\* include_metadata=False it writes the w*h*4 pixel bytes alone.
C2_ContainerLayout ==
    (last.op = "convert" /\ last.ok)
    => LET img == LastSource
           out == fs[last.dst]
           n == img.w * img.h * 4
       IN  /\ out.kind = "bytes"
           /\ IF last.flag
              THEN /\ Len(out.data) = 17 + n
                   /\ SubSeq(out.data, 1, 4) = <<80, 78, 71, 0>>
                   /\ SubSeq(out.data, 5, 8) = LE4(img.w)
                   /\ SubSeq(out.data, 9, 12) = LE4(img.h)
                   /\ out.data[13] = 4
                   /\ SubSeq(out.data, 14, 17) = LE4(n)
                   /\ FieldAt(out.data, 13) = Len(out.data) - 17
                   /\ IsRGBAOf(img, SubSeq(out.data, 18, Len(out.data)))
              ELSE IsRGBAOf(img, out.data)

\* A container with a header has been written for an image that is not square.
C2_Witness ==
    /\ last.op = "convert" /\ last.ok /\ last.flag
    /\ LastSource.w # LastSource.h
    /\ Len(fs[last.dst].data) = 17 + LastSource.w * LastSource.h * 4

\* C3: headerless containers are write-only.  read_bin_to_png with
\* has_metadata=False on an existing file, whatever it holds, returns failure
\* with the message that width and height are unknown, and changes no file.
C3_HeaderlessWriteOnly ==
    (last.op = "read" /\ ~last.flag /\ LastSource.kind # "none")
    => /\ ~last.ok /\ ~last.raised
       /\ last.msg = <<"Cannot read raw BIN without metadata (width/height unknown)">>
       /\ fs = last.before

\* A file written by convert_png_to_bin with include_metadata=False has been
\* read with has_metadata=False.
C3_Witness ==
    /\ last.op = "read" /\ ~last.flag /\ ~last.ok
    /\ last.srcOrigin.by = "convert" /\ ~last.srcOrigin.meta

\* C4: magic mismatch rejection.  read_bin_to_png with has_metadata=True on an
\* existing file whose first four bytes are not 50 4E 47 00, or that has fewer
\* than four bytes, returns failure with the invalid-format message and
\* changes no file.
C4_MagicMismatch ==
    (last.op = "read" /\ last.flag /\ LastSource.kind # "none"
       /\ ~HasMagic(FileBytes(LastSource)))
    => /\ ~last.ok /\ ~last.raised
       /\ last.msg = <<"Invalid BIN file format (missing PNG magic number)">>
       /\ fs = last.before

\* A file that is well-formed after a wrong third magic byte has been rejected.
C4_Witness ==
    /\ last.op = "read" /\ last.flag /\ ~last.ok
    /\ LastSource = BytesFile(<<80, 78, 73, 0>> \o SubSeq(GoodContainer, 5, 21))

\* C5: size-field consistency.  read_bin_to_png with has_metadata=True on a
\* container with the right magic and a complete header whose dataSize field
\* is larger than the number of bytes after the header returns failure and
\* writes no image.
C5_OversizedDataSizeFails ==
    (ReadOfHeadered /\ FieldAt(LastSource.data, 13) > Len(LastSource.data) - 17)
    => /\ ~last.ok
       /\ ~(fs[last.dst] # last.before[last.dst] /\ fs[last.dst].kind = "png"
            /\ fs[last.dst].intact)

\* The inputs on which a call must report failure: a missing source; for
\* convert_png_to_bin a suffix other than .png in either case and a source the
\* codec cannot decode; for read_bin_to_png with has_metadata=True a wrong
\* magic, a header cut short, and fewer pixel bytes than the image needs.
ErrorInput ==
    \/ LastSource.kind = "none"
    \/ /\ last.op = "convert"
       /\ \/ last.src.suffix \notin {".png", ".PNG"}
          \/ LastSource.kind # "png"
          \/ ~LastSource.intact
    \/ /\ last.op = "read" /\ last.flag
       /\ \/ ~HasMagic(FileBytes(LastSource))
          \/ Len(FileBytes(LastSource)) < 17
          \/ LET b == LastSource.data
             IN  /\ FieldAt(b, 4) >= 1 /\ FieldAt(b, 8) >= 1
                 /\ \/ FieldAt(b, 4) > PixelBytesRead
                    \/ FieldAt(b, 8) > PixelBytesRead
                    \/ FieldAt(b, 4) * FieldAt(b, 8) * 4 > PixelBytesRead

\* C6: errors are recovered at the operation boundary.  Every call of
\* convert_png_to_bin and read_bin_to_png returns a (success, message) pair and
\* lets no exception reach its caller; success is False whenever an exception
\* was raised inside the call and on every error input.
C6_ErrorsRecovered ==
    (last.op # "none")
    => /\ ~last.raised
       /\ last.ok \in BOOLEAN
       /\ last.msg # <<>>
       /\ (last.exc # "" \/ ErrorInput) => ~last.ok

\* A header cut short has raised struct.error inside read_bin_to_png, which
\* returned failure.
C6_Witness ==
    /\ last.op = "read" /\ last.exc = "struct.error"
    /\ ~last.raised /\ ~last.ok
    /\ Len(LastSource.data) < 17

\* C8: dimension/buffer consistency.  read_bin_to_png with has_metadata=True on
\* a container with the right magic and a complete header returns failure
\* whenever the number of pixel bytes it read differs from width*height*4,
\* and so returns success only when the two are equal.
C8_BufferMatchesDims ==
    ReadOfHeadered
    => LET w == FieldAt(LastSource.data, 4)
           h == FieldAt(LastSource.data, 8)
       IN  last.ok => (w <= PixelBytesRead /\ h <= PixelBytesRead
                       /\ w * h * 4 = PixelBytesRead)

\* C9: the bytes-per-pixel field is not validated.  read_bin_to_png on a file
\* with a byte at offset 12 returns the same outcome and message and leaves
\* the same files as it does on that file with 04 at offset 12.
C9_ModeByteIgnored ==
    (last.op = "read" /\ LastSource.kind = "bytes" /\ Len(LastSource.data) >= 13)
    => LET four == BytesFile([LastSource.data EXCEPT ![13] = 4])
           r == read_bin_to_png([last.before EXCEPT ![last.src] = four],
                                last.src, last.dst, last.flag)
       IN  /\ r.ok = last.ok /\ r.raised = last.raised /\ r.msg = last.msg
           /\ \A q \in Paths \ {last.src} : r.fs[q] = fs[q]

\* A container whose bytes-per-pixel byte is FF has been decoded to an image.
C9_Witness ==
    /\ ReadOfHeadered /\ last.ok
    /\ LastSource.data[13] = 255
    /\ fs[last.dst].kind = "png" /\ fs[last.dst].w = FieldAt(LastSource.data, 4)

\* C10: a failing encode leaves the destination untouched.  When
\* convert_png_to_bin is called on a missing source, on a source whose suffix
\* is not .png in either case, or on a source the codec cannot decode, it
\* returns failure and every file, the destination among them, is as it was:
\* neither created nor modified.
C10_FailedEncodeFrame ==
    (last.op = "convert"
       /\ (\/ LastSource.kind # "png"
           \/ ~LastSource.intact
           \/ last.src.suffix \notin {".png", ".PNG"}))
    => /\ ~last.ok
       /\ fs = last.before

\* An encode has failed in the codec with its destination already there, and
\* one with its destination missing.
C10_Witness ==
    /\ last.op = "convert" /\ ~last.ok /\ last.exc = "OSError"
    /\ last.before[last.dst].kind # "none"
    /\ fs[last.dst] = last.before[last.dst]

\* C7: each request works on its own files.  While a request to
\* /api/png-to-bin or /api/bin-to-png is between saving its upload and its
\* answer, no other in-flight request works on the path it saved to or the
\* path it converts to, the file it saved is the one it uploaded, and after
\* its conversion the converted file is the one it wrote.
C7_OwnFilePaths ==
    \A r \in 1..NumReqs :
        /\ reqs[r].pc \in {"saved", "converted"}
             => /\ fs[reqs[r].inp] = reqs[r].upload
                /\ \A o \in (1..NumReqs) \ {r} :
                      reqs[o].pc \in {"saved", "converted"}
                        => {reqs[r].inp, reqs[r].out} \cap {reqs[o].inp, reqs[o].out} = {}
        /\ reqs[r].pc = "converted" => fs[reqs[r].out] = reqs[r].wrote

====
